---- MODULE Spec2Model ----
(***************************************************************************)
(* Model of the auto-merge daemon: src/helpers/github.ts (URL parsing,     *)
(* requirements, approval counter, CI gate) and                            *)
(* src/helpers/update-pull-requests.ts (the update orchestrator).          *)
(*                                                                         *)
(* Three specifications share the variables:                               *)
(*   Spec      the orchestrator, one action per loop iteration, together   *)
(*             with the environment (GitHub, the tracked-PR store);        *)
(*   SpecCi    one call of isCiGreen, one action per polling attempt;      *)
(*   SpecAt    one polling attempt as a function of the fetched runs.      *)
(***************************************************************************)
EXTENDS Integers, Sequences, FiniteSets, TLC

(***************************************************************************)
(* Bounds of the model.                                                    *)
(***************************************************************************)
NumPRs == 1          \* pull requests that exist on the host: 1..NumPRs
MaxTracked == 2      \* length of the tracked list
MaxBatches == 2      \* runs of updatePullRequests in one behaviour
MaxClock == 2        \* timestamps are 0..MaxClock
MaxReviews == 1      \* reviews returned by listReviews
MaxRequired == 1     \* configured required approval counts are 0..MaxRequired
MaxSuites == 2       \* check suites of a commit
MaxCheckRuns == 2    \* check runs of one suite

(***************************************************************************)
(* Program constants.                                                      *)
(***************************************************************************)
maxTry == 100
delay == 60000
PathSegments == 5

(***************************************************************************)
(* JavaScript values.                                                      *)
(* TLC compares only values of one kind, so the booleans and null that a   *)
(* JavaScript expression may yield are strings, and NaN, which only occurs *)
(* where the numbers are naturals (timestamps, issue numbers), is -1.      *)
(* Every comparison with NaN is false and is written out where it occurs.  *)
(***************************************************************************)
JsTrue == "true"
JsFalse == "false"
Null == "null"
Undefined == "undefined"
NaN == 0 - 1

\* JavaScript truthiness of the values above
truthy(v) == v \notin {JsFalse, Null, Undefined, ""}

RECURSIVE SeqsUpTo(_, _)
\* all sequences over S of length at most n
SeqsUpTo(S, n) ==
  IF n = 0 THEN {<<>>}
  ELSE LET shorter == SeqsUpTo(S, n - 1)
       IN shorter \cup {Append(s, x) : s \in {t \in shorter : Len(t) = n - 1}, x \in S}

Range(s) == {s[i] : i \in DOMAIN s}

(***************************************************************************)
(* github.ts: parseGitHubUrl.  A URL is modelled by its pathname split on  *)
(* "/": a sequence of segments, each a sequence of characters.             *)
(***************************************************************************)
Digits == <<"0", "1", "2", "3", "4", "5", "6", "7", "8", "9">>

DigitValue(c) == CHOOSE d \in 0..9 : Digits[d + 1] = c

IsDigit(c) == \E d \in 0..9 : Digits[d + 1] = c

RECURSIVE DecimalValue(_)
DecimalValue(seg) ==
  IF seg = <<>> THEN 0
  ELSE 10 * DecimalValue(SubSeq(seg, 1, Len(seg) - 1)) + DigitValue(seg[Len(seg)])

\* Number(string): the empty string is 0, a decimal numeral its value, else NaN
Number(seg) ==
  IF \A i \in DOMAIN seg : IsDigit(seg[i]) THEN DecimalValue(seg) ELSE NaN

\* a longer path is taken for the URL of a pull request as well
parseGitHubUrlAtLeast(url) ==
  IF Len(url) < PathSegments
  THEN [ok |-> FALSE, error |-> url]
  ELSE [ok |-> TRUE, owner |-> url[2], repo |-> url[3], issue_number |-> Number(url[5])]

parseGitHubUrl(url) ==
  IF Len(url) # PathSegments
  THEN [ok |-> FALSE, error |-> url]
  ELSE [ok |-> TRUE, owner |-> url[2], repo |-> url[3], issue_number |-> Number(url[5])]

(***************************************************************************)
(* github.ts: getMergeTimeoutAndApprovalRequiredCount.                     *)
(***************************************************************************)
getMergeTimeoutAndApprovalRequiredCount(cfg, authorAssociation) ==
  LET timeoutCollaborator ==
        [mergeTimeout |-> cfg.mergeTimeout.collaborator,
         requiredApprovalCount |-> cfg.approvalsRequired.collaborator]
      timeoutContributor ==
        [mergeTimeout |-> cfg.mergeTimeout.contributor,
         requiredApprovalCount |-> cfg.approvalsRequired.contributor]
  IN IF authorAssociation \in {"COLLABORATOR", "MEMBER", "OWNER"}
     THEN timeoutCollaborator ELSE timeoutContributor

(***************************************************************************)
(* github.ts: getApprovalCount.  A response of the hosting API is          *)
(* [ok |-> FALSE] when the request fails and [ok |-> TRUE, data |-> ...]   *)
(* otherwise; the data of listReviews is the sequence of review states.    *)
(***************************************************************************)
Failed == [ok |-> FALSE]

Ok(data) == [ok |-> TRUE, data |-> data]

ReviewStates == {"APPROVED", "CHANGES_REQUESTED", "COMMENTED"}

IsApproved(state) == state = "APPROVED"

getApprovalCount(listReviews) ==
  IF ~listReviews.ok THEN 0
  ELSE Len(SelectSeq(listReviews.data, IsApproved))

(***************************************************************************)
(* github.ts: isCiGreen.  A check run is [name, status, conclusion].  The  *)
(* data of listForSuite is the set of the suite's check runs: the code     *)
(* only filters them and asks whether some run has a property.             *)
(***************************************************************************)
workflowName == "self"

CheckRuns ==
  [name : {workflowName, "build"}, status : {"in_progress"}, conclusion : {Null}]
  \cup [name : {workflowName, "build"}, status : {"completed"},
        conclusion : {"success", "failure"}]

\* the automation's own check runs counted like any other
RECURSIVE attemptResultUnfiltered(_)
attemptResultUnfiltered(checkResults) ==
  IF checkResults = <<>> THEN JsTrue
  ELSE LET filteredResults == Head(checkResults)
       IN IF \E o \in filteredResults : o.status # "completed" THEN Null
          ELSE IF \E o \in filteredResults : o.conclusion = "failure" THEN JsFalse
          ELSE attemptResultUnfiltered(Tail(checkResults))

\* the body of the function given to retryAsync, after Promise.all resolved:
\* checkResults is the sequence, in suite order, of the suites' check runs
RECURSIVE attemptResult(_)
attemptResult(checkResults) ==
  IF checkResults = <<>> THEN JsTrue
  ELSE LET filteredResults == {o \in Head(checkResults) : o.name # workflowName}
       IN IF \E o \in filteredResults : o.status # "completed" THEN Null
          ELSE IF \E o \in filteredResults : o.conclusion = "failure" THEN JsFalse
          ELSE attemptResult(Tail(checkResults))

\* one call of the function given to retryAsync: listForSuite for every suite,
\* awaited jointly; a rejected request rejects the attempt
attempt(responses) ==
  IF \E i \in DOMAIN responses : ~responses[i].ok
  THEN [threw |-> TRUE, value |-> Undefined]
  ELSE [threw |-> FALSE, value |-> attemptResult([i \in DOMAIN responses |-> responses[i].data])]

\* the option until of the retryAsync call
until(lastResult) == lastResult # Null

\* one call too many
retryStepOneMore(currentTry, outcome) ==
  IF ~outcome.threw /\ until(outcome.value) THEN "return"
  ELSE IF currentTry <= maxTry THEN "recall"
  ELSE "throw"

\* ts-retry, one round of retryAsync: what follows the currentTry-th call of fn
retryStep(currentTry, outcome) ==
  LET canRecall == currentTry < maxTry
  IN IF ~outcome.threw /\ until(outcome.value) THEN "return"
     ELSE IF canRecall THEN "recall"
     ELSE "throw"

\* a script tells what each attempt of one isCiGreen call meets: the first
\* `lead` attempts the outcome `before`, the later ones the outcome `after`
ScriptAt(script, try) == IF try <= script.lead THEN script.before ELSE script.after

\* ts-retry, retryAsync from the first call of fn on: fn is called again,
\* after the delay, as long as a round ends in "recall"; the round that ends
\* otherwise returns the value of fn or throws (TooManyTries or the error)
retryAsync(script) ==
  LET ends == {try \in 1..maxTry : retryStep(try, ScriptAt(script, try)) # "recall"}
      tries == CHOOSE try \in ends : \A other \in ends : try <= other
      outcome == ScriptAt(script, tries)
  IN [raised |-> retryStep(tries, outcome) = "throw", value |-> outcome.value,
      tries |-> tries, waited |-> (tries - 1) * delay]

\* isCiGreen as one call.  The promise of retryAsync is returned without
\* await, so its rejection is not caught by the try block of isCiGreen.
isCiGreen(listSuitesForRef, script) ==
  IF ~listSuitesForRef.ok
  THEN [raised |-> FALSE, value |-> JsFalse, tries |-> 0, waited |-> 0]
  ELSE retryAsync(script)

(***************************************************************************)
(* update-pull-requests.ts: the facts one iteration reads.                 *)
(***************************************************************************)
PRs == 1..NumPRs

\* the URL of pull request n: the path /o/r/pull/<n>
Numeral(n) == IF n < 10 THEN <<Digits[n + 1]>> ELSE <<Digits[(n \div 10) + 1], Digits[(n % 10) + 1]>>

UrlOf(n) == << <<>>, <<"o">>, <<"r">>, <<"p", "u", "l", "l">>, Numeral(n) >>

\* a tracked URL that is not the URL of a pull request: the path /o/r
RepoUrl == << <<>>, <<"o">>, <<"r">> >>

Urls == {UrlOf(n) : n \in PRs} \cup {RepoUrl}

Associations == <<"OWNER", "NONE", "MEMBER", "FIRST_TIME_CONTRIBUTOR", "COLLABORATOR", "CONTRIBUTOR">>

\* the author association of pull request n, a fact of the host
AssociationOf(n) == Associations[((n - 1) % Len(Associations)) + 1]

\* pulls.get: the fields of the response the orchestrator reads
Details(state, n) ==
  [merged |-> IF state = "merged" THEN JsTrue ELSE JsFalse,
   closed_at |-> IF state = "open" THEN Null ELSE "2024-01-01T00:00:00Z",
   author_association |-> AssociationOf(n)]

\* closed_at left out of the test
isMergedOnly(pullRequestDetails) == truthy(pullRequestDetails.merged)

isClosedOrMerged(pullRequestDetails) ==
  truthy(pullRequestDetails.merged) \/ truthy(pullRequestDetails.closed_at)

\* A field of a timeline event is absent, a text that is no date, or the
\* ISO text of the instant t.
Absent == [kind |-> "absent", t |-> 0]
Text == [kind |-> "text", t |-> 0]
Iso(t) == [kind |-> "iso", t |-> t]

\* new Date(text).getTime()
DateParse(field) == IF field.kind = "iso" THEN field.t ELSE NaN

\* e.created_at || e.updated_at || e.timestamp || e.commented_at || ""
FirstField(e) ==
  IF e.created_at.kind # "absent" THEN e.created_at
  ELSE IF e.updated_at.kind # "absent" THEN e.updated_at
  ELSE IF e.timestamp.kind # "absent" THEN e.timestamp
  ELSE IF e.commented_at.kind # "absent" THEN e.commented_at
  ELSE Text

Event(c, u, t, m) == [created_at |-> c, updated_at |-> u, timestamp |-> t, commented_at |-> m]

SetMax(S) == CHOOSE x \in S : \A y \in S : y <= x

\* the earliest date taken for the latest
lastActivityDateEarliest(activity) ==
  LET eventDates == {DateParse(FirstField(activity[i])) : i \in DOMAIN activity} \ {NaN}
  IN IF eventDates = {} THEN NaN ELSE CHOOSE x \in eventDates : \A y \in eventDates : x <= y

\* lines 44-51: the last activity, NaN when no event has a valid date
lastActivityDate(activity) ==
  LET eventDates == {DateParse(FirstField(activity[i])) : i \in DOMAIN activity} \ {NaN}
  IN IF eventDates = {} THEN NaN ELSE SetMax(eventDates)

\* A duration text is a number followed by a unit.  ms() knows the units
\* below and yields undefined for any other text.
Duration(n, unit) == [num |-> n, unit |-> unit]

ms(offset) ==
  IF offset.unit \in {"", "ms"} THEN [defined |-> TRUE, value |-> offset.num]
  ELSE IF offset.unit = "s" THEN [defined |-> TRUE, value |-> offset.num * 1000]
  ELSE [defined |-> FALSE, value |-> 0]

\* the offset subtracted from the last activity
isPastOffsetSubtracting(lastActivity, offset, currentDate) ==
  LET offsetTime == ms(offset)
  IN IF ~offsetTime.defined THEN "throw"
     ELSE IF currentDate > lastActivity - offsetTime.value THEN JsTrue ELSE JsFalse

\* past the offset from the very instant it ends
isPastOffsetInclusive(lastActivity, offset, currentDate) ==
  LET offsetTime == ms(offset)
  IN IF ~offsetTime.defined THEN "throw"
     ELSE IF currentDate >= lastActivity + offsetTime.value THEN JsTrue ELSE JsFalse

\* isPastOffset, with the current date as a parameter; "throw" is the
\* Error("Invalid offset format")
isPastOffset(lastActivity, offset, currentDate) ==
  LET offsetTime == ms(offset)
  IN IF ~offsetTime.defined THEN "throw"
     ELSE IF currentDate > lastActivity + offsetTime.value THEN JsTrue ELSE JsFalse

\* the due check left out
isDueAlways(lastActivity, offset, currentDate) == JsTrue

\* the due check without isNaN: a comparison with NaN is false
isDueWithoutNaN(lastActivity, offset, currentDate) ==
  IF lastActivity = NaN
  THEN IF ~ms(offset).defined THEN "throw" ELSE JsFalse
  ELSE isPastOffset(lastActivity, offset, currentDate)

\* line 57: isNaN(lastActivityDate.getTime()) || isPastOffset(...)
isDue(lastActivity, offset, currentDate) ==
  IF lastActivity = NaN THEN JsTrue ELSE isPastOffset(lastActivity, offset, currentDate)

\* the comparison turned round
hasApprovalsTurned(approvalCount, requiredApprovalCount) == approvalCount <= requiredApprovalCount

\* line 58: the comparison of the approval count with the required count
hasApprovals(approvalCount, requiredApprovalCount) == approvalCount >= requiredApprovalCount

\* the merge without the delete from the store
mergePullRequestKeepsTracking(deleteOk, mergeOk) ==
  [calls |-> <<"merge">>, deleted |-> FALSE, threw |-> ~mergeOk]

\* the merge before the delete from the store
mergePullRequestMergeFirst(deleteOk, mergeOk) ==
  IF ~mergeOk THEN [calls |-> <<"merge">>, deleted |-> FALSE, threw |-> TRUE]
  ELSE [calls |-> <<"merge", "delete">>, deleted |-> deleteOk, threw |-> ~deleteOk]

\* mergePullRequest: the calls it makes, in order, and whether it throws
mergePullRequest(deleteOk, mergeOk) ==
  IF ~deleteOk THEN [calls |-> <<"delete">>, deleted |-> FALSE, threw |-> TRUE]
  ELSE [calls |-> <<"delete", "merge">>, deleted |-> TRUE, threw |-> ~mergeOk]

(***************************************************************************)
(* The inputs the environment can present.                                 *)
(***************************************************************************)
Times == 0..MaxClock

\* the configurations: every pair of required approval counts, with some
\* pairs of merge timeouts
TimeoutPairs ==
  {[collaborator |-> Duration(1, "ms"), contributor |-> Duration(2, "")],
   [collaborator |-> Duration(3, "days ago"), contributor |-> Duration(1, "s")]}

Configs ==
  [mergeTimeout : TimeoutPairs,
   approvalsRequired : [collaborator : 0..MaxRequired, contributor : 0..MaxRequired]]

\* timelines: no event, events dated by one field or another, an event
\* whose first field present is no date
TimelineEvents ==
  {Event(Iso(t), Absent, Absent, Absent) : t \in Times}
  \cup {Event(Absent, Absent, Absent, Iso(0)), Event(Text, Iso(0), Absent, Absent)}

Activities ==
  {<<>>} \cup {<<e>> : e \in TimelineEvents}
  \cup {<<Event(Iso(t1), Absent, Absent, Absent), Event(Absent, Iso(t2), Absent, Absent)>> :
          t1, t2 \in Times}

ReviewResponses == {Failed} \cup {Ok(r) : r \in SeqsUpTo(ReviewStates, MaxReviews)}

\* what a call of getApprovalCount can come to: the count, and whether the
\* request failed
ApprovalCalls ==
  {[count |-> getApprovalCount(listReviews), failed |-> ~listReviews.ok] :
     listReviews \in ReviewResponses}

\* what reading the timeline can come to: the request fails, or the last
\* activity of the events it returns
TimelineReads ==
  {[ok |-> FALSE, lastActivity |-> NaN]}
  \cup {[ok |-> TRUE, lastActivity |-> lastActivityDate(activity)] : activity \in Activities}

SuiteResponses ==
  {Failed} \cup {Ok(runs) : runs \in {r \in SUBSET CheckRuns : Cardinality(r) <= MaxCheckRuns}}

\* the responses of listForSuite one attempt can meet, for n suites
AttemptInputs(n) == [1..n -> SuiteResponses]

\* what one attempt can come to, for n suites
AttemptOutcomes == [n \in 0..MaxSuites |-> {attempt(r) : r \in AttemptInputs(n)}]

LeadSamples == {0, 1, maxTry - 1, maxTry}

Scripts(n) == [lead : LeadSamples, before : AttemptOutcomes[n], after : AttemptOutcomes[n]]

\* what one call of isCiGreen can come to
CiCalls ==
  {isCiGreen(Failed, [lead |-> 0, before |-> attempt(<<>>), after |-> attempt(<<>>)])}
  \cup UNION {{isCiGreen(Ok(n), script) : script \in Scripts(n)} : n \in 0..MaxSuites}

(***************************************************************************)
(* State.                                                                  *)
(***************************************************************************)
VARIABLES
  config,        \* context.config, fixed for a behaviour
  tracked,       \* the tracked-PR store: a list of URLs
  prs,           \* the host: the state of every pull request
  pc,            \* "idle" or "running": updatePullRequests
  pullRequests,  \* the list read by getRepositories at the start of the run
  idx,           \* the position of the for loop in pullRequests
  processed,     \* the iterations of the run, in order: the URL, and whether it was caught
  last,          \* what the last iteration of the run read, called and came to
  mergeCalls,    \* calls of pulls.merge in the run, per pull request
  removed,       \* the pull requests whose URL the orchestrator deleted
  batches,       \* runs started
  ciPc, ciSuites, ciTry, ciWaited, ciErrors, ciLast, ciOut,  \* SpecCi
  atIn, atOut,   \* SpecAt
  fnIn, fnOut    \* the specifications of one function: its input and its result

orchVars == <<config, tracked, prs, pc, pullRequests, idx, processed, last,
              mergeCalls, removed, batches>>
ciVars == <<ciPc, ciSuites, ciTry, ciWaited, ciErrors, ciLast, ciOut>>
atVars == <<atIn, atOut>>
fnVars == <<fnIn, fnOut>>
vars == <<orchVars, ciVars, atVars, fnVars>>

NotRead == 0 - 2

NoCi == [raised |-> FALSE, value |-> Undefined]

\* what the orchestrator sees of a call of isCiGreen
Seen(ciCall) == [raised |-> ciCall.raised, value |-> ciCall.value]

\* the record of an iteration that has read nothing yet
Blank(item) ==
  [item |-> item, calls |-> <<>>, caught |-> FALSE, fetched |-> "none",
   lastActivity |-> NotRead, now |-> NotRead, approvals |-> NotRead,
   reviewsFailed |-> FALSE, ciCalled |-> FALSE, ci |-> NoCi, storeDelete |-> "none"]

NoItem == Blank(<<>>)

OrchInit ==
  /\ config \in Configs
  /\ tracked = <<>>
  /\ prs = [n \in PRs |-> "open"]
  /\ pc = "idle"
  /\ pullRequests = <<>>
  /\ idx = 1
  /\ processed = <<>>
  /\ last = NoItem
  /\ mergeCalls = [n \in PRs |-> 0]
  /\ removed = {}
  /\ batches = 0

\* no attempt made yet
Pending == [threw |-> FALSE, value |-> "pending"]

CiIdle ==
  /\ ciPc = "idle"
  /\ ciSuites = 0
  /\ ciTry = 0
  /\ ciWaited = 0
  /\ ciErrors = FALSE
  /\ ciLast = Pending
  /\ ciOut = [raised |-> FALSE, value |-> Undefined, tries |-> 0, waited |-> 0]

AtIdle ==
  /\ atIn = <<>>
  /\ atOut = Pending

\* no function called yet
NotCalled == [done |-> FALSE]

FnIdle ==
  /\ fnIn = <<>>
  /\ fnOut = NotCalled

Init == OrchInit /\ CiIdle /\ AtIdle /\ FnIdle

(***************************************************************************)
(* The environment: the store is filled from outside and pull requests are *)
(* closed or merged by people.  Its steps are taken between two runs: an   *)
(* iteration reads the host once, so a change during a run is seen as one  *)
(* before the run (by the iterations after it) or after the run.           *)
(***************************************************************************)
Track(url) ==
  /\ pc = "idle"
  /\ url \notin Range(tracked)
  /\ Len(tracked) < MaxTracked
  /\ tracked' = Append(tracked, url)
  /\ removed' = removed \ {n \in PRs : UrlOf(n) = url}
  /\ UNCHANGED <<config, prs, pc, pullRequests, idx, processed, last, mergeCalls, batches>>
  /\ UNCHANGED <<ciVars, atVars, fnVars>>

CloseExternally(n, how) ==
  /\ pc = "idle"
  /\ prs[n] = "open"
  /\ prs' = [prs EXCEPT ![n] = how]
  /\ UNCHANGED <<config, tracked, pc, pullRequests, idx, processed, last, mergeCalls,
                 removed, batches>>
  /\ UNCHANGED <<ciVars, atVars, fnVars>>

(***************************************************************************)
(* updatePullRequests.                                                     *)
(***************************************************************************)
\* getRepositories: the tracked list as stored
getRepositories(store) == store

\* lines 24-28: read the list; an empty list ends the run at once
StartRun ==
  /\ pc = "idle"
  /\ batches < MaxBatches
  /\ batches' = batches + 1
  /\ pullRequests' = getRepositories(tracked)
  /\ pc' = IF Len(pullRequests') = 0 THEN "idle" ELSE "running"
  /\ UNCHANGED <<config, tracked, prs, idx, processed, last, mergeCalls, removed>>
  /\ UNCHANGED <<ciVars, atVars, fnVars>>

\* the for loop has run through the list: the function returns
EndRun ==
  /\ pc = "running"
  /\ idx > Len(pullRequests)
  /\ pc' = "idle"
  /\ pullRequests' = <<>>
  /\ idx' = 1
  /\ processed' = <<>>
  /\ last' = NoItem
  /\ mergeCalls' = [n \in PRs |-> 0]
  /\ UNCHANGED <<config, tracked, prs, removed, batches>>
  /\ UNCHANGED <<ciVars, atVars, fnVars>>

\* sqlite.pullRequest.delete
Delete(store, url) == SelectSeq(store, LAMBDA u : u # url)

\* a caught error ends the loop
nextIndexAborting(i, caught, length) == IF caught THEN length + 1 ELSE i + 1

\* the for loop and its try and catch: the position after an iteration that
\* ended normally or in the catch block
nextIndex(i, caught, length) == i + 1

\* the end of one iteration
Continue(rec) ==
  /\ last' = rec
  /\ processed' = Append(processed, [item |-> rec.item, caught |-> rec.caught])
  /\ idx' = nextIndex(idx, rec.caught, Len(pullRequests))
  /\ UNCHANGED <<config, pc, pullRequests, batches>>

Quiet(rec) == Continue(rec) /\ UNCHANGED <<tracked, prs, mergeCalls, removed>>

\* lines 59-64: the CI gate, then the merge
CiStage(rec, n) ==
  \E ciCall \in CiCalls :
    LET rec1 == [rec EXCEPT !.calls = @ \o <<"listSuitesForRef">>, !.ciCalled = TRUE, !.ci = Seen(ciCall)]
    IN IF ciCall.raised THEN Quiet([rec1 EXCEPT !.caught = TRUE])
       ELSE IF ~truthy(ciCall.value) THEN Quiet(rec1)
       ELSE \E deleteOk, mergeOk \in BOOLEAN :
              LET m == mergePullRequest(deleteOk, mergeOk)
                  called == \E i \in DOMAIN m.calls : m.calls[i] = "merge"
                  count == Cardinality({i \in DOMAIN m.calls : m.calls[i] = "merge"})
              IN \* the outcome of pulls.merge matters only when it is called
                 /\ mergeOk \/ called
                 /\ Continue([rec1 EXCEPT !.calls = @ \o m.calls, !.caught = m.threw,
                                           !.storeDelete = IF deleteOk THEN "ok" ELSE "error"])
                 /\ tracked' = IF m.deleted THEN Delete(tracked, rec.item) ELSE tracked
                 /\ removed' = IF m.deleted THEN removed \cup {n} ELSE removed
                 /\ mergeCalls' = [mergeCalls EXCEPT ![n] = @ + count]
                 /\ prs' = IF called /\ mergeOk /\ prs[n] = "open"
                           THEN [prs EXCEPT ![n] = "merged"] ELSE prs

\* lines 57-58: the due check, then the approval count
DueStage(rec, n, requirements) ==
  LET due == isDue(rec.lastActivity, requirements.mergeTimeout, rec.now)
  IN IF due = "throw" THEN Quiet([rec EXCEPT !.caught = TRUE])
     ELSE IF ~truthy(due) THEN Quiet(rec)
     ELSE \E approvalCall \in ApprovalCalls :
            LET approvalCount == approvalCall.count
                rec1 == [rec EXCEPT !.calls = @ \o <<"listReviews">>,
                                    !.approvals = approvalCount,
                                    !.reviewsFailed = approvalCall.failed]
            IN IF hasApprovals(approvalCount, requirements.requiredApprovalCount)
               THEN CiStage(rec1, n)
               ELSE Quiet(rec1)

\* lines 34-53: a closed or merged pull request is deleted from the store;
\* an open one has its timeline read and its requirements resolved
OpenStage(rec, n, pullRequestDetails) ==
  IF isClosedOrMerged(pullRequestDetails)
  THEN \E deleteOk \in BOOLEAN :
         /\ Continue([rec EXCEPT !.calls = @ \o <<"delete">>,
                                  !.storeDelete = IF deleteOk THEN "ok" ELSE "error"])
         /\ tracked' = IF deleteOk THEN Delete(tracked, rec.item) ELSE tracked
         /\ removed' = IF deleteOk THEN removed \cup {n} ELSE removed
         /\ UNCHANGED <<prs, mergeCalls>>
  ELSE \E timeline \in TimelineReads, currentDate \in Times :
         LET rec1 == [rec EXCEPT !.calls = @ \o <<"timeline">>]
         IN IF ~timeline.ok THEN Quiet([rec1 EXCEPT !.caught = TRUE])
            ELSE DueStage([rec1 EXCEPT !.lastActivity = timeline.lastActivity,
                                       !.now = currentDate],
                          n,
                          getMergeTimeoutAndApprovalRequiredCount(config,
                            pullRequestDetails.author_association))

\* lines 29-74: one iteration of the for loop, with its try and catch
ProcessItem ==
  /\ pc = "running"
  /\ idx <= Len(pullRequests)
  /\ LET pullRequest == pullRequests[idx]
         gitHubUrl == parseGitHubUrl(pullRequest)
         rec == Blank(pullRequest)
     IN IF ~gitHubUrl.ok THEN Quiet([rec EXCEPT !.caught = TRUE])
        ELSE \E getOk \in BOOLEAN :
               LET n == gitHubUrl.issue_number
                   rec1 == [rec EXCEPT !.calls = <<"get">>]
               IN IF ~getOk \/ n \notin PRs THEN Quiet([rec1 EXCEPT !.caught = TRUE])
                  ELSE OpenStage([rec1 EXCEPT !.fetched = prs[n]], n, Details(prs[n], n))
  /\ UNCHANGED <<ciVars, atVars, fnVars>>

Next ==
  \/ \E url \in Urls : Track(url)
  \/ \E n \in PRs, how \in {"closed", "merged"} : CloseExternally(n, how)
  \/ StartRun
  \/ ProcessItem
  \/ EndRun

Spec == Init /\ [][Next]_vars

(***************************************************************************)
(* SpecCi: one call of isCiGreen, attempt by attempt.                      *)
(***************************************************************************)
\* lines 53-60: listSuitesForRef, awaited inside the try block
CiStart ==
  /\ ciPc = "idle"
  /\ \E listSuitesForRef \in {Failed} \cup {Ok(n) : n \in 0..MaxSuites} :
       IF ~listSuitesForRef.ok
       THEN /\ ciPc' = "done"
            /\ ciErrors' = TRUE
            /\ ciOut' = isCiGreen(listSuitesForRef, [lead |-> 0, before |-> Pending, after |-> Pending])
            /\ UNCHANGED <<ciSuites, ciTry, ciWaited, ciLast>>
       ELSE /\ ciPc' = "polling"
            /\ ciSuites' = listSuitesForRef.data
            /\ ciTry' = 1
            /\ UNCHANGED <<ciWaited, ciErrors, ciLast, ciOut>>
  /\ UNCHANGED <<orchVars, atVars, fnVars>>

\* lines 61-100: one call of fn by retryAsync and what ts-retry does next:
\* wait for the delay and call again, return the value, or throw
CiAttempt ==
  /\ ciPc = "polling"
  /\ \E outcome \in AttemptOutcomes[ciSuites] :
       LET step == retryStep(ciTry, outcome)
       IN /\ ciLast' = outcome
          /\ ciErrors' = (ciErrors \/ outcome.threw)
          /\ IF step = "recall"
             THEN /\ ciTry' = ciTry + 1
                  /\ ciWaited' = ciWaited + delay
                  /\ UNCHANGED <<ciPc, ciOut>>
             ELSE /\ ciPc' = "done"
                  /\ ciOut' = [raised |-> step = "throw", value |-> outcome.value,
                               tries |-> ciTry, waited |-> ciWaited]
                  /\ UNCHANGED <<ciTry, ciWaited>>
  /\ UNCHANGED <<ciSuites, orchVars, atVars, fnVars>>

CiNext == CiStart \/ CiAttempt

SpecCi == Init /\ [][CiNext]_vars

\* the event loop runs every pending continuation: a started call goes on
SpecCiFair == SpecCi /\ WF_vars(CiNext)

(***************************************************************************)
(* SpecAt: one attempt of the CI gate on every input within the bounds.    *)
(***************************************************************************)
AtInit ==
  /\ OrchInit
  /\ CiIdle
  /\ atIn \in UNION {AttemptInputs(n) : n \in 0..MaxSuites}
  /\ atOut = Pending
  /\ FnIdle

AtRun ==
  /\ atOut = Pending
  /\ atOut' = attempt(atIn)
  /\ UNCHANGED <<atIn, orchVars, ciVars, fnVars>>

SpecAt == AtInit /\ [][AtRun]_vars

(***************************************************************************)
(* What the claims speak of, read off the record of an iteration.          *)
(***************************************************************************)
Called(rec, api) == \E i \in DOMAIN rec.calls : rec.calls[i] = api

IsTracked(url) == \E i \in DOMAIN tracked : tracked[i] = url

ItemNumber(rec) == parseGitHubUrl(rec.item).issue_number

RequirementsOf(rec) ==
  getMergeTimeoutAndApprovalRequiredCount(config, AssociationOf(ItemNumber(rec)))

TimeoutOf(rec) == ms(RequirementsOf(rec).mergeTimeout)

\* the iteration fetched the pull request as open and read its timeline
ReadOpen(rec) == rec.fetched = "open" /\ rec.lastActivity # NotRead

\* past due: no valid last activity, or last activity plus timeout earlier than now
PastDue(rec) ==
  /\ ReadOpen(rec)
  /\ \/ rec.lastActivity = NaN
     \/ TimeoutOf(rec).defined /\ rec.lastActivity + TimeoutOf(rec).value < rec.now

\* not yet past due: last activity plus timeout later than now
NotYetDue(rec) ==
  /\ ReadOpen(rec)
  /\ rec.lastActivity # NaN
  /\ TimeoutOf(rec).defined
  /\ rec.lastActivity + TimeoutOf(rec).value > rec.now

EnoughApprovals(rec) ==
  rec.approvals # NotRead /\ rec.approvals >= RequirementsOf(rec).requiredApprovalCount

CiGreen(rec) == rec.ciCalled /\ ~rec.ci.raised /\ rec.ci.value = JsTrue

GatesPass(rec) == PastDue(rec) /\ EnoughApprovals(rec) /\ CiGreen(rec)

\* C1: the merge API is called for a tracked pull request only if, in the same
\* iteration, it was fetched as open, was past due, had at least the required
\* approvals and the CI gate returned true.
C1_MergeOnlyThroughAllGates == Called(last, "merge") => GatesPass(last)

C1_Witness == Called(last, "merge") /\ GatesPass(last) /\ last.lastActivity # NaN

\* C2 as stated: an open, past due, approved pull request with a green CI gate
\* is removed from the tracked list and merged exactly once by one run.
C2_RemovedAndMergedOnce ==
  (pc = "running" /\ GatesPass(last))
    => ~IsTracked(last.item) /\ mergeCalls[ItemNumber(last)] = 1

\* C2 as amended: for such a pull request one run calls the store's delete; if
\* the delete succeeds the pull request is removed from the tracked list and the
\* merge API is called exactly once; if the delete fails the pull request stays
\* tracked and the merge API is not called.
C2_RemovedAndMergedOnceUnlessDeleteFails ==
  (pc = "running" /\ GatesPass(last))
    => /\ Called(last, "delete")
       /\ last.storeDelete \in {"ok", "error"}
       /\ last.storeDelete = "ok"
            => /\ ~IsTracked(last.item)
               /\ mergeCalls[ItemNumber(last)] = 1
       /\ last.storeDelete = "error"
            => /\ IsTracked(last.item)
               /\ mergeCalls[ItemNumber(last)] = 0
               /\ ~Called(last, "merge")

C2_Witness ==
  /\ pc = "running"
  /\ GatesPass(last)
  /\ last.storeDelete = "ok"
  /\ ~IsTracked(last.item)
  /\ mergeCalls[ItemNumber(last)] = 1
  /\ prs[ItemNumber(last)] = "merged"

\* C3: an iteration that fetches an open pull request that is not past due
\* leaves the tracked list unchanged, makes no merge call and consults neither
\* the approval counter nor the CI gate.
C3_NotDueNoAction ==
  [][(Len(processed') = Len(processed) + 1 /\ NotYetDue(last'))
       => /\ tracked' = tracked
          /\ mergeCalls' = mergeCalls
          /\ prs' = prs
          /\ last'.calls = <<"get", "timeline">>
          /\ ~last'.ciCalled
          /\ last'.approvals = NotRead]_vars

C3_Witness ==
  /\ pc = "running"
  /\ NotYetDue(last)
  /\ last.calls = <<"get", "timeline">>
  /\ IsTracked(last.item)

\* C4 as stated: an iteration on a pull request that is already merged or closed
\* removes it from the tracked list and does not call the merge API.
C4_ClosedIsRemoved ==
  (pc = "running" /\ last.fetched \in {"closed", "merged"})
    => ~IsTracked(last.item) /\ ~Called(last, "merge")

\* C4 as amended: an iteration on a pull request that is already merged or closed
\* calls the store's delete for it and nothing else, which removes it from the
\* tracked list unless the delete fails (the failure is logged and the pull
\* request stays tracked); the merge API is never called for a pull request that
\* is merged or closed, in any run.
C4_ClosedIsDeletedNeverMerged ==
  /\ [](pc = "running" /\ last.fetched \in {"closed", "merged"}
          => /\ last.calls = <<"get", "delete">>
             /\ ~last.caught
             /\ last.storeDelete = "ok" => ~IsTracked(last.item)
             /\ last.storeDelete = "error" => IsTracked(last.item)
             /\ mergeCalls[ItemNumber(last)] = 0)
  /\ [][\A n \in PRs : prs[n] # "open" => mergeCalls'[n] <= mergeCalls[n]]_vars

C4_Witness ==
  /\ pc = "running"
  /\ batches = 2
  /\ last.fetched = "merged"
  /\ last.storeDelete = "ok"
  /\ ~IsTracked(last.item)

\* C5: the items are processed one at a time in list order, and an iteration
\* that fails is caught: when the run ends every item of the list has had its
\* iteration.
C5_BatchSurvivesFailures ==
  /\ [](/\ idx = Len(processed) + 1
        /\ Len(processed) <= Len(pullRequests)
        /\ \A i \in DOMAIN processed : processed[i].item = pullRequests[i])
  /\ [][(pc = "running" /\ pc' = "idle") => Len(processed) = Len(pullRequests)]_vars

\* the first item's merge failed and was caught; the second item had its iteration
C5_Witness ==
  /\ pc = "running"
  /\ idx > Len(pullRequests)
  /\ Len(processed) = 2
  /\ processed[1] = [item |-> UrlOf(1), caught |-> TRUE]
  /\ 1 \in removed
  /\ prs[1] = "open"
  /\ last.item = pullRequests[2]

\* C6 as stated: a pull request the orchestrator removed from tracking is closed
\* or merged.
C6_RemovedAreClosedOrMerged == \A n \in removed : prs[n] # "open"

C8_FetchErrorReturnsFalse ==
  (ciPc = "done" /\ ciErrors) => ~ciOut.raised /\ ciOut.value = JsFalse

\* the check runs of all suites that are not the automation's own run
NonSelfRuns(responses) ==
  {o \in UNION {responses[i].data : i \in DOMAIN responses} : o.name # workflowName}

\* the result of an attempt as the design describes it, over all runs at once
ResultOverAll(runs) ==
  IF \E o \in runs : o.status # "completed" THEN Null
  ELSE IF \E o \in runs : o.conclusion = "failure" THEN JsFalse
  ELSE JsTrue

\* C9 as stated: the result of one attempt is indeterminate if any non-self run
\* of any suite is not completed, otherwise false if any has failed, otherwise
\* true, whatever the order of the suites.
C9_ResultOverAllSuites ==
  (atOut # Pending /\ ~atOut.threw) => atOut.value = ResultOverAll(NonSelfRuns(atIn))

\* C10: the poll loop makes at most maxTry attempts, waits the delay between
\* two consecutive attempts, goes on only after an attempt that gave no result
\* other than null, returns the first result that is not null, and ends.
C10_PollLoopBoundedAndEnds ==
  /\ [](/\ ciTry <= maxTry
        /\ ciPc = "polling" => ciTry >= 1 /\ ciWaited = (ciTry - 1) * delay
        /\ (ciPc = "done" /\ ciOut.tries >= 1)
             => /\ ciOut.tries = ciTry
                /\ ciOut.waited = (ciOut.tries - 1) * delay
                /\ ~ciOut.raised
                     => ~ciLast.threw /\ ciLast.value \in {JsTrue, JsFalse}
                        /\ ciOut.value = ciLast.value)
  /\ [][(ciPc = "polling" /\ ciPc' = "polling")
          => /\ ciTry' = ciTry + 1
             /\ ciWaited' = ciWaited + delay
             /\ ciLast'.threw \/ ciLast'.value = Null]_vars
  /\ (ciPc = "polling" ~> ciPc = "done")

C10_Witness ==
  /\ ciPc = "done"
  /\ ~ciErrors
  /\ ciOut = [raised |-> FALSE, value |-> JsTrue, tries |-> 2, waited |-> delay]

\* C11 as stated: when every one of the maxTry attempts of the CI gate gave
\* null, isCiGreen returns null to its caller and does not raise.
C11_ExhaustedReturnsNull ==
  (ciPc = "done" /\ ~ciErrors /\ ciOut.tries = maxTry /\ ciLast.value = Null)
    => ~ciOut.raised /\ ciOut.value = Null

\* C12 as stated: an iteration that evaluates an open pull request under a merge
\* timeout that ms cannot parse never calls the merge API, and its error is not
\* taken by the catch block of the iteration.
C12_InvalidTimeoutIsFatal ==
  (pc = "running" /\ ReadOpen(last) /\ ~TimeoutOf(last).defined)
    => ~Called(last, "merge") /\ ~last.caught

(***************************************************************************)
(* github.ts: parseTarget and getOpenPullRequests.  A string is a sequence *)
(* of pieces, "/" being a piece of its own, so that split, the template    *)
(* literals and join are computed on it.                                    *)
(***************************************************************************)
MaxTargets == 2

\* payload.repository.owner.login, and an organization that is not the owner
Login == <<"acme">>
OtherOrg == <<"other">>
RepoName == <<"app">>

\* payload.repository.owner: present, or missing (its login then reads undefined)
Owners == {[present |-> TRUE, login |-> Login],
           [present |-> FALSE, login |-> <<"undefined">>]}

\* a string is truthy unless it is empty; a missing array element is not truthy
truthyText(s) == Len(s) > 0

\* String.prototype.split("/")
RECURSIVE split(_)
split(s) ==
  IF \A i \in DOMAIN s : s[i] # "/" THEN <<s>>
  ELSE LET i == CHOOSE k \in DOMAIN s : s[k] = "/" /\ \A j \in 1..(k - 1) : s[j] # "/"
       IN <<SubSeq(s, 1, i - 1)>> \o split(SubSeq(s, i + 1, Len(s)))

\* lines 107-125
parseTarget(owner, target) ==
  IF ~owner.present THEN [threw |-> TRUE, null |-> FALSE]
  ELSE LET parts == split(target)
           orgParsed == parts[1]
           repoParsed == IF Len(parts) >= 2 THEN parts[2] ELSE <<>>
       IN IF truthyText(repoParsed)
          THEN IF orgParsed # owner.login
               THEN [threw |-> FALSE, null |-> TRUE]
               ELSE [threw |-> FALSE, null |-> FALSE, org |-> owner.login, repo |-> repoParsed]
          ELSE [threw |-> FALSE, null |-> FALSE, org |-> owner.login, repo |-> orgParsed]

\* lines 143 and 150: the term of a parsed target; sign is empty or "-"
filterTerm(parsedTarget, sign) ==
  IF truthyText(parsedTarget.repo)
  THEN sign \o <<"repo:">> \o parsedTarget.org \o <<"/">> \o parsedTarget.repo
  ELSE sign \o <<"org:">> \o parsedTarget.org

\* lines 140-153: reduce over a list of targets
RECURSIVE reduceTargets(_, _, _)
reduceTargets(owner, targets, sign) ==
  IF targets = <<>> THEN <<>>
  ELSE LET parsedTarget == parseTarget(owner, Head(targets))
           rest == reduceTargets(owner, Tail(targets), sign)
       IN IF parsedTarget.null \/ parsedTarget.threw THEN rest
          ELSE <<filterTerm(parsedTarget, sign)>> \o rest

\* Array.prototype.join
RECURSIVE join(_, _)
join(terms, separator) ==
  IF terms = <<>> THEN <<>>
  ELSE IF Len(terms) = 1 THEN terms[1]
  ELSE terms[1] \o <<separator>> \o join(Tail(terms), separator)

\* line 137: the target pushed when there is nothing to monitor
defaultTarget(owner) == <<"org: ">> \o owner.login

\* lines 132-164: the filter, the query, and whether the call threw (parseTarget
\* without an owner, or the search, whose error is logged and thrown again)
getOpenPullRequests(owner, targets, searchOk) ==
  LET monitor == IF Len(targets.monitor) = 0 THEN <<defaultTarget(owner)>>
                 ELSE targets.monitor
      filter == reduceTargets(owner, monitor, <<>>)
                  \o reduceTargets(owner, targets.ignore, <<"-">>)
  IN IF ~owner.present THEN [threw |-> TRUE, searched |-> FALSE, filter |-> <<>>, q |-> <<>>]
     ELSE [threw |-> ~searchOk, searched |-> TRUE, filter |-> filter,
           q |-> <<"is:pr is:open draft:false ">> \o join(filter, " ")]

\* watch targets: an organization, a repository of an organization, the empty
\* string, and an organization followed by a slash
Targets ==
  {Login, OtherOrg, Login \o <<"/">> \o RepoName, OtherOrg \o <<"/">> \o RepoName,
   <<>>, Login \o <<"/">>}

TargetInputs ==
  [owner : Owners, monitor : SeqsUpTo(Targets, MaxTargets),
   ignore : SeqsUpTo(Targets, MaxTargets), searchOk : BOOLEAN]

\* the result of a call
Done(result) == [done |-> TRUE, result |-> result]

(***************************************************************************)
(* SpecTargets: one call of getOpenPullRequests on every input within the  *)
(* bounds.                                                                  *)
(***************************************************************************)
\* the orchestrator and the CI gate at rest, under one configuration
AtRest ==
  /\ OrchInit
  /\ config = CHOOSE c \in Configs : TRUE
  /\ CiIdle
  /\ AtIdle

TargetsInit ==
  /\ AtRest
  /\ fnIn \in TargetInputs
  /\ fnOut = NotCalled

TargetsRun ==
  /\ ~fnOut.done
  /\ fnOut' = Done(getOpenPullRequests(fnIn.owner,
                     [monitor |-> fnIn.monitor, ignore |-> fnIn.ignore], fnIn.searchOk))
  /\ UNCHANGED <<fnIn, orchVars, ciVars, atVars>>

SpecTargets == TargetsInit /\ [][TargetsRun]_vars

\* a target of the form "org" or "org/repo"
IsOrgForm(target) == Len(split(target)) = 1 /\ truthyText(target)

IsOrgRepoForm(target) ==
  Len(split(target)) = 2 /\ truthyText(split(target)[1]) /\ truthyText(split(target)[2])

\* the terms the design describes for a list of targets
RECURSIVE TermsAsDescribed(_, _)
TermsAsDescribed(targets, sign) ==
  IF targets = <<>> THEN <<>>
  ELSE LET target == Head(targets)
           rest == TermsAsDescribed(Tail(targets), sign)
       IN IF split(target)[1] # Login THEN rest
          ELSE IF IsOrgForm(target) THEN <<sign \o <<"org:">> \o Login>> \o rest
          ELSE <<sign \o <<"repo:">> \o Login \o <<"/">> \o split(target)[2]>> \o rest

\* C13 as stated: a monitor or ignore target, of the form "org" or "org/repo",
\* whose organization is not the owner is parsed to null and adds no term to
\* the filter; a target "org" adds an org: (or -org:) term and a target
\* "org/repo" a repo: (or -repo:) term.
C13_ForeignTargetsDroppedTermsByForm ==
  (/\ fnOut.done
   /\ fnIn.owner.present
   /\ fnIn.monitor # <<>>
   /\ \A target \in Range(fnIn.monitor) \cup Range(fnIn.ignore) :
        IsOrgForm(target) \/ IsOrgRepoForm(target))
    => /\ \A target \in Range(fnIn.monitor) \cup Range(fnIn.ignore) :
            split(target)[1] # Login => parseTarget(fnIn.owner, target).null
       /\ fnOut.result.filter
            = TermsAsDescribed(fnIn.monitor, <<>>) \o TermsAsDescribed(fnIn.ignore, <<"-">>)

\* C14 as stated: with nothing to monitor the positive part of the filter is
\* the single term org:<owner>.
C14_EmptyMonitorDefaultsToOwnerOrg ==
  (fnOut.done /\ fnIn.owner.present /\ fnIn.monitor = <<>>)
    => SelectSeq(fnOut.result.filter, LAMBDA term : Head(term) # "-")
         = <<(<<"org:">> \o Login)>>

(***************************************************************************)
(* SpecUrl: one call of parseGitHubUrl on every pathname within the bounds. *)
(* The pathname of a URL starts with a slash; it is a sequence of pieces    *)
(* that split cuts at every "/".                                            *)
(***************************************************************************)
MaxPathLen == 8

PathPieces == {"/", "a", "4"}

Pathnames == {<<"/">> \o rest : rest \in SeqsUpTo(PathPieces, MaxPathLen)}

UrlInit ==
  /\ AtRest
  /\ fnIn \in Pathnames
  /\ fnOut = NotCalled

UrlRun ==
  /\ ~fnOut.done
  /\ fnOut' = Done(parseGitHubUrl(split(fnIn)))
  /\ UNCHANGED <<fnIn, orchVars, ciVars, atVars>>

SpecUrl == UrlInit /\ [][UrlRun]_vars

\* the number of segments of a pathname: one more than its slashes
SegmentCount(pathname) == Cardinality({i \in DOMAIN pathname : pathname[i] = "/"}) + 1

\* C15: parseGitHubUrl fails with an error naming the URL when the path has a
\* number of segments other than 5; for a path of exactly 5 segments it returns
\* segment 1 as owner, segment 2 as repo and the numeric value of segment 4 as
\* issue_number; the call changes nothing else.
C15_ParseGitHubUrl ==
  /\ [](fnOut.done
          => LET path == split(fnIn)
             IN IF SegmentCount(fnIn) # PathSegments
                THEN ~fnOut.result.ok /\ fnOut.result.error = path
                ELSE /\ fnOut.result.ok
                     /\ fnOut.result.owner = path[2]
                     /\ fnOut.result.repo = path[3]
                     /\ \A n \in 0..99 :
                          path[5] = Numeral(n) => fnOut.result.issue_number = n)
  /\ [][fnOut' # fnOut => UNCHANGED <<fnIn, orchVars, ciVars, atVars>>]_vars

C15_Witness ==
  /\ fnOut.done
  /\ fnIn = <<"/", "a", "/", "a", "/", "a", "/", "4", "4">>
  /\ fnOut.result = [ok |-> TRUE, owner |-> <<"a">>, repo |-> <<"a">>, issue_number |-> 44]

\* the iteration read a valid last activity of an open pull request under a
\* timeout that ms can parse
ValidDueCheck(rec) ==
  ReadOpen(rec) /\ rec.lastActivity # NaN /\ TimeoutOf(rec).defined

\* C16 as stated: with a valid last activity the iteration takes the branch
\* "not yet past due" (no further call) if and only if last activity + timeout
\* > now; when last activity + timeout <= now, equality included, it goes on
\* to the approval check.
C16_DueFromEquality ==
  (pc = "running" /\ ValidDueCheck(last))
    => /\ last.calls = <<"get", "timeline">>
            <=> last.lastActivity + TimeoutOf(last).value > last.now
       /\ last.lastActivity + TimeoutOf(last).value <= last.now
            => Called(last, "listReviews")

\* C16 as amended: with a valid last activity the iteration takes the branch
\* "not yet past due" if and only if last activity + timeout >= now; it goes on
\* to the approval check exactly when last activity + timeout < now, so at
\* equality the pull request is not yet past due.
C16_DueAfterEquality ==
  (pc = "running" /\ ValidDueCheck(last))
    => /\ last.calls = <<"get", "timeline">>
            <=> last.lastActivity + TimeoutOf(last).value >= last.now
       /\ Called(last, "listReviews")
            <=> last.lastActivity + TimeoutOf(last).value < last.now

C16_Witness ==
  /\ pc = "running"
  /\ ValidDueCheck(last)
  /\ last.lastActivity + TimeoutOf(last).value = last.now
  /\ last.calls = <<"get", "timeline">>
  /\ IsTracked(last.item)

(***************************************************************************)
(* SpecActivity: the last activity of every timeline within the bounds.    *)
(***************************************************************************)
MaxEvents == 2

\* events whose four timestamp fields are absent, no date, or dates
ActivityEvents ==
  {Event(c, u, t, m) : c \in {Absent, Text} \cup {Iso(x) : x \in Times},
                       u \in {Absent, Iso(MaxClock)},
                       t \in {Absent, Iso(0)},
                       m \in {Absent, Iso(MaxClock)}}

ActivityInit ==
  /\ AtRest
  /\ fnIn \in SeqsUpTo(ActivityEvents, MaxEvents)
  /\ fnOut = NotCalled

ActivityRun ==
  /\ ~fnOut.done
  /\ fnOut' = Done(lastActivityDate(fnIn))
  /\ UNCHANGED <<fnIn, orchVars, ciVars, atVars>>

SpecActivity == ActivityInit /\ [][ActivityRun]_vars

\* the timestamp fields in the order in which an event is read
TimestampFields == <<"created_at", "updated_at", "timestamp", "commented_at">>

\* the valid timestamps in any timestamp field of any event
AllTimestamps(activity) ==
  {DateParse(activity[i][TimestampFields[k]]) :
     i \in DOMAIN activity, k \in DOMAIN TimestampFields} \ {NaN}

\* the timestamps of the events, each taken from the first of its fields that
\* is present, when that one is a date
LeadingTimestamps(activity) ==
  {DateParse(activity[i][TimestampFields[k]]) :
     <<i, k>> \in {p \in (DOMAIN activity) \X (DOMAIN TimestampFields) :
                     /\ activity[p[1]][TimestampFields[p[2]]].kind # "absent"
                     /\ \A j \in 1..(p[2] - 1) :
                          activity[p[1]][TimestampFields[j]].kind = "absent"}} \ {NaN}

\* C17 as stated: the last activity is the maximum of the valid timestamps in
\* any timestamp field of any event: it is a date as soon as one field holds
\* one, and never earlier than any of them.
C17_LatestOfAllFields ==
  fnOut.done
    => /\ AllTimestamps(fnIn) # {} => fnOut.result \in AllTimestamps(fnIn)
       /\ \A t \in AllTimestamps(fnIn) : fnOut.result >= t

\* C17 as amended: every event gives one timestamp, that of the first of its
\* fields created_at, updated_at, timestamp, commented_at that is present, if
\* it is a date; the last activity is the maximum of these, never earlier than
\* any of them, and there is none when no event gives one.
C17_LatestOfLeadingFields ==
  fnOut.done
    => /\ LeadingTimestamps(fnIn) = {} <=> fnOut.result = NaN
       /\ LeadingTimestamps(fnIn) # {} => fnOut.result \in LeadingTimestamps(fnIn)
       /\ \A t \in LeadingTimestamps(fnIn) : fnOut.result >= t

\* the later event is the earlier activity, and a later date in a second field
\* of the first event is not read
C17_Witness ==
  /\ fnOut.done
  /\ fnIn = <<Event(Iso(1), Iso(MaxClock), Absent, Absent),
              Event(Absent, Absent, Iso(0), Absent)>>
  /\ fnOut.result = 1

SameButSelf(r1, r2) ==
  /\ r1.ok = r2.ok
  /\ r1.ok => /\ {o \in r1.data : o.name # workflowName} = {o \in r2.data : o.name # workflowName}
              /\ Cardinality({o \in r1.data : o.name = workflowName})
                   = Cardinality({o \in r2.data : o.name = workflowName})

\* C19: the result of an attempt of the CI gate does not depend on the
\* automation's own check runs: changing the status and conclusion of the runs
\* named workflowName in the response of any suite leaves the result of the
\* attempt, and so the sequence of results and the final result, the same.
C19_SelfRunsDoNotCount ==
  atOut # Pending
    => \A i \in DOMAIN atIn :
         \A other \in SuiteResponses :
           SameButSelf(atIn[i], other) => attempt([atIn EXCEPT ![i] = other]) = atOut

\* green although the automation's own run has failed, where a success of the
\* same run is green as well
C19_Witness ==
  /\ atOut = [threw |-> FALSE, value |-> JsTrue]
  /\ \E i \in DOMAIN atIn :
       /\ [name |-> workflowName, status |-> "completed", conclusion |-> "failure"] \in atIn[i].data
       /\ [name |-> "build", status |-> "completed", conclusion |-> "success"] \in atIn[i].data

\* C20: the merge call of an iteration is made right after the store's delete
\* has succeeded; when the delete of the merge path fails, the merge API is not
\* called for the pull request in the run, the pull request stays tracked, the
\* error is caught and the next item of the list has its iteration.
C20_DeleteBeforeMerge ==
  /\ [](pc = "running"
          => /\ \A i \in DOMAIN last.calls :
                  last.calls[i] = "merge"
                    => i > 1 /\ last.calls[i - 1] = "delete" /\ last.storeDelete = "ok"
             /\ (GatesPass(last) /\ last.storeDelete = "error")
                  => /\ ~Called(last, "merge")
                     /\ mergeCalls[ItemNumber(last)] = 0
                     /\ IsTracked(last.item)
                     /\ last.caught
                     /\ idx = Len(processed) + 1)
  /\ [][(/\ pc = "running"
         /\ GatesPass(last)
         /\ last.storeDelete = "error"
         /\ idx <= Len(pullRequests))
          => /\ pc' = "running"
             /\ processed' # processed
                  => /\ Len(processed') = Len(processed) + 1
                     /\ last'.item = pullRequests[idx]]_vars

\* the delete of the first item's merge has failed and the second item is next
C20_Witness ==
  /\ pc = "running"
  /\ GatesPass(last)
  /\ last.storeDelete = "error"
  /\ last.calls = <<"get", "timeline", "listReviews", "listSuitesForRef", "delete">>
  /\ IsTracked(last.item)
  /\ Len(pullRequests) = 2
  /\ idx = 2

====
